---- MODULE Spec2Model ----
(***************************************************************************)
(* Quiz session engine of quizazz: weighted question selection, answer     *)
(* presentation and the session lifecycle of app/src/lib/engine.           *)
(* Indices are 0-based as in the TypeScript source; TLA+ sequences are     *)
(* 1-based, so element i of an array xs is xs[i + 1].                      *)
(***************************************************************************)
EXTENDS Integers, Sequences, FiniteSets, TLC

\* ------------------------------------------------------------------------
\* Bounds of the model
\* ------------------------------------------------------------------------
MaxTime == 1
MaxSessions == 3
MaxLog == 3
MaxPending == 1

\* ------------------------------------------------------------------------
\* Values
\* ------------------------------------------------------------------------
null == "null"

LABELS == <<"a", "b", "c", "d", "e">>

SCORE_MAP == [correct |-> 1, partially_correct |-> -2, incorrect |-> -5, ridiculous |-> -10]

scoreAnswer(category) == SCORE_MAP[category]

Answer(t, c) == [text |-> t, category |-> c]

\* The authored content the sessions are drawn from: a manifest of two
\* questions and its navigation tree.
Questions ==
  << [id |-> "q1", tags |-> <<"math">>, answers |-> <<Answer(1, "correct"), Answer(2, "incorrect")>>],
     [id |-> "q2", tags |-> <<>>, answers |-> <<Answer(1, "correct")>>] >>

NavTree ==
  << [id |-> "t1", questionIds |-> <<"q1", "q2">>,
      children |-> << [id |-> "s1", questionIds |-> <<"q1">>, children |-> <<>>] >>],
     [id |-> "t2", questionIds |-> <<>>, children |-> <<>>] >>

QuestionIds == {Questions[i].id : i \in 1..Len(Questions)}

\* Arguments the operations are called with.
Config(n, tags, nodeIds) ==
  [questionCount |-> n, answerCount |-> 3, selectedTags |-> tags, selectedNodeIds |-> nodeIds]
Configs ==
  {Config(2, <<>>, <<>>), Config(2, <<"math">>, <<>>), Config(2, <<>>, <<"t2">>)}
LabelArgs == {"a", "b", "z"}
IndexArgs == -1..2

\* ------------------------------------------------------------------------
\* Array helpers
\* ------------------------------------------------------------------------
Range(s) == {s[i] : i \in 1..Len(s)}

RemoveAt(s, i) == SubSeq(s, 1, i) \o SubSeq(s, i + 2, Len(s))

Swap(s, i, j) == [s EXCEPT ![i + 1] = s[j + 1], ![j + 1] = s[i + 1]]

RECURSIVE Sum(_)
Sum(s) == IF s = <<>> THEN 0 ELSE s[1] + Sum(Tail(s))

RECURSIVE MaxOf(_)
MaxOf(s) == IF Len(s) = 1 THEN s[1]
            ELSE LET m == MaxOf(Tail(s)) IN IF s[1] >= m THEN s[1] ELSE m

Min(a, b) == IF a <= b THEN a ELSE b

\* ------------------------------------------------------------------------
\* Random utilities
\* ------------------------------------------------------------------------

\* Every array the Fisher-Yates loop can return: i runs from length-1 down
\* to 1 and j = floor(random * (i + 1)) is any index of 0..i.
RECURSIVE ShuffleFrom(_, _)
ShuffleFrom(result, i) ==
  IF i <= 0 THEN {result}
  ELSE UNION {ShuffleFrom(Swap(result, i, j), i - 1) : j \in 0..i}

shuffle(array) == ShuffleFrom(array, Len(array) - 1)

\* The loop of weightedRandomIndex from index i on, r being what is left of
\* the draw.
\* Mutant of WeightedLoop: the fallback after the loop is weights.length.
RECURSIVE WeightedLoopPastEnd(_, _, _)
WeightedLoopPastEnd(weights, r, i) ==
  IF i >= Len(weights) THEN Len(weights)
  ELSE IF r - weights[i + 1] <= 0 THEN i
  ELSE WeightedLoopPastEnd(weights, r - weights[i + 1], i + 1)

RECURSIVE WeightedLoop(_, _, _)
WeightedLoop(weights, r, i) ==
  IF i >= Len(weights) THEN Len(weights) - 1
  ELSE IF r - weights[i + 1] <= 0 THEN i
  ELSE WeightedLoop(weights, r - weights[i + 1], i + 1)

\* r is the draw random * total; an integer r stands for the reals of (r-1, r].
weightedRandomIndex(weights, r) == WeightedLoop(weights, r, 0)

Draws(weights) ==
  LET total == Sum(weights) IN IF total >= 0 THEN 0..total ELSE total..0

\* ------------------------------------------------------------------------
\* Selection engine
\* ------------------------------------------------------------------------
\* Mutant of FilterByTags: a question qualifies only with ALL selected tags.
FilterByTagsAll(questions, selectedTags) ==
  IF Len(selectedTags) > 0
  THEN SelectSeq(questions, LAMBDA q : \A t \in Range(selectedTags) : t \in Range(q.tags))
  ELSE questions

FilterByTags(questions, selectedTags) ==
  IF Len(selectedTags) > 0
  THEN SelectSeq(questions, LAMBDA q : \E t \in Range(q.tags) : t \in Range(selectedTags))
  ELSE questions

\* scoreMap.get(id) ?? 0 over an array of [questionId, cumulativeScore]; a
\* later entry of the array overrides an earlier one, as in new Map(...).
RECURSIVE ScoreOf(_, _)
ScoreOf(scores, id) ==
  IF scores = <<>> THEN 0
  ELSE LET last == scores[Len(scores)] IN
       IF last.questionId = id THEN last.cumulativeScore
       ELSE ScoreOf(SubSeq(scores, 1, Len(scores) - 1), id)

MaxScore(scores) ==
  IF Len(scores) > 0
  THEN MaxOf([i \in 1..Len(scores) |-> scores[i].cumulativeScore])
  ELSE 0

WeightedPool(filtered, scores) ==
  [i \in 1..Len(filtered) |->
     [question |-> filtered[i],
      weight |-> MaxScore(scores) - ScoreOf(scores, filtered[i].id) + 1]]

\* Mutant of DrawLoop: the question drawn is not taken out of the pool.
RECURSIVE DrawLoopNoSplice(_, _, _, _)
DrawLoopNoSplice(pool, selected, i, actualCount) ==
  IF i >= actualCount THEN {selected}
  ELSE LET weights == [k \in 1..Len(pool) |-> pool[k].weight] IN
       UNION { LET idx == weightedRandomIndex(weights, r) IN
               DrawLoopNoSplice(pool, Append(selected, pool[idx + 1].question),
                                i + 1, actualCount)
               : r \in Draws(weights) }

\* The draw loop of selectQuestions: every array it can return.
RECURSIVE DrawLoop(_, _, _, _)
DrawLoop(pool, selected, i, actualCount) ==
  IF i >= actualCount THEN {selected}
  ELSE LET weights == [k \in 1..Len(pool) |-> pool[k].weight] IN
       UNION { LET idx == weightedRandomIndex(weights, r) IN
               DrawLoop(RemoveAt(pool, idx), Append(selected, pool[idx + 1].question),
                        i + 1, actualCount)
               : r \in Draws(weights) }

selectQuestions(questions, scores, count, selectedTags) ==
  LET filtered == FilterByTags(questions, selectedTags)
      pool == WeightedPool(filtered, scores)
  IN DrawLoop(pool, <<>>, 0, Min(count, Len(pool)))

\* ------------------------------------------------------------------------
\* Presentation engine
\* ------------------------------------------------------------------------
undefinedAnswer == [text |-> 0, category |-> "undefined"]

\* Mutant of presentAnswers: the distractors are drawn from all the answers
\* of the question, the correct ones included.
presentAnswersFromAll(question, answerCount) ==
  LET correct == SelectSeq(question.answers, LAMBDA a : a.category = "correct")
      others == question.answers
      chosenCorrects == IF correct = <<>> THEN {undefinedAnswer} ELSE Range(correct)
  IN UNION { UNION { { [i \in 1..Len(shuffled) |->
                          [text |-> shuffled[i].text, category |-> shuffled[i].category,
                           label |-> LABELS[i]]]
                       : shuffled \in shuffle(<<chosenCorrect>> \o
                                        SubSeq(shuffledOthers, 1, Min(answerCount - 1, Len(shuffledOthers)))) }
                     : shuffledOthers \in shuffle(others) }
             : chosenCorrect \in chosenCorrects }

\* Every array presentAnswers can return.
presentAnswers(question, answerCount) ==
  LET correct == SelectSeq(question.answers, LAMBDA a : a.category = "correct")
      others == SelectSeq(question.answers, LAMBDA a : a.category # "correct")
      chosenCorrects == IF correct = <<>> THEN {undefinedAnswer} ELSE Range(correct)
  IN UNION { UNION { { [i \in 1..Len(shuffled) |->
                          [text |-> shuffled[i].text, category |-> shuffled[i].category,
                           label |-> LABELS[i]]]
                       : shuffled \in shuffle(<<chosenCorrect>> \o
                                        SubSeq(shuffledOthers, 1, Min(answerCount - 1, Len(shuffledOthers)))) }
                     : shuffledOthers \in shuffle(others) }
             : chosenCorrect \in chosenCorrects }

\* ------------------------------------------------------------------------
\* Navigation tree scope
\* ------------------------------------------------------------------------
\* Mutant of walk: the children of a node are not visited.
walkNoChildren(node, nodeIds) ==
  IF node.id \in Range(nodeIds) THEN Range(node.questionIds) ELSE {}

RECURSIVE walk(_, _)
walk(node, nodeIds) ==
  IF node.id \in Range(nodeIds) THEN Range(node.questionIds)
  ELSE UNION {walk(node.children[k], nodeIds) : k \in 1..Len(node.children)}

collectQuestionIds(nodeIds, nodes) ==
  UNION {walk(nodes[k], nodeIds) : k \in 1..Len(nodes)}

\* Mutant of filterByNodeIds: the navigation scope is ignored.
filterByNodeIdsAll(questions, nodeIds, nodes) == questions

filterByNodeIds(questions, nodeIds, nodes) ==
  SelectSeq(questions, LAMBDA q : q.id \in collectQuestionIds(nodeIds, nodes))

\* ------------------------------------------------------------------------
\* State
\* ------------------------------------------------------------------------
VARIABLES
  quizSession,        \* the quizSession store: <<>> for null, <<session>> otherwise
  viewMode,           \* the viewMode store
  reviewIndex,        \* the reviewIndex store: <<>> for null, <<index>> otherwise
  sessionId,          \* lifecycle.ts: the identifier minted by crypto.randomUUID()
  frontierIndex,      \* lifecycle.ts: frontierIndex
  questionStartTime,  \* lifecycle.ts: questionStartTime
  allNavNodes,        \* lifecycle.ts: allNavNodes
  now,                \* the clock read by Date.now()
  question_scores,    \* table question_scores: question_id -> cumulative_score
  session_answers,    \* table session_answers, in insertion order
  pending,            \* completing submitAnswer calls suspended in persistDatabase
  lastOp,             \* history: the last call made
  answered,           \* history: per slot, the first and the last label that
                      \* submitAnswer accepted for it in this attempt
  call                \* a direct call of an engine function: its arguments and
                      \* its result, <<>> while there is none

vars == <<quizSession, viewMode, reviewIndex, sessionId, frontierIndex, questionStartTime,
          allNavNodes, now, question_scores, session_answers, pending, lastOp, answered,
          call>>

HasSession == quizSession # <<>>
Session == quizSession[1]

\* ------------------------------------------------------------------------
\* Score store
\* ------------------------------------------------------------------------
seedScores(rows, questionIds) ==
  [id \in DOMAIN rows \cup questionIds |-> IF id \in DOMAIN rows THEN rows[id] ELSE 0]

\* The snapshot startQuiz is given: one entry per row, in the order of the
\* question bank.
getScores(rows) ==
  LET present == SelectSeq(Questions, LAMBDA q : q.id \in DOMAIN rows)
  IN [i \in 1..Len(present) |->
        [questionId |-> present[i].id, cumulativeScore |-> rows[present[i].id]]]

\* UPDATE ... WHERE question_id = ?: no row, no change.
updateScore(rows, questionId, points) ==
  IF questionId \in DOMAIN rows
  THEN [rows EXCEPT ![questionId] = @ + points]
  ELSE rows

recordAnswer(answers, sid, questionId, category, points, elapsedMs) ==
  Append(answers, [sessionId |-> sid, questionId |-> questionId, category |-> category,
                   points |-> points, elapsedMs |-> elapsedMs])

\* ------------------------------------------------------------------------
\* Session lifecycle
\* ------------------------------------------------------------------------
InRange(questions, i) == i >= 0 /\ i < Len(questions)

\* Mutant of FindAnswer: falls back to the first presented answer.
FindAnswerOrFirst(presentedAnswers, label) ==
  LET found == SelectSeq(presentedAnswers, LAMBDA a : a.label = label)
  IN IF found = <<>> THEN presentedAnswers ELSE found

\* presentedAnswers.find((a) => a.label === label): <<>> when there is none.
FindAnswer(presentedAnswers, label) ==
  SelectSeq(presentedAnswers, LAMBDA a : a.label = label)

NewSlot(q, presented) ==
  [question |-> q, presentedAnswers |-> presented, selectedLabel |-> null,
   submittedLabel |-> null, elapsedMs |-> 0]

\* Every array of fresh slots for the questions qs, in their order.
RECURSIVE FreshSlots(_, _)
FreshSlots(qs, answerCount) ==
  IF qs = <<>> THEN {<<>>}
  ELSE { <<NewSlot(qs[1], presented)>> \o rest :
           presented \in presentAnswers(qs[1], answerCount),
           rest \in FreshSlots(Tail(qs), answerCount) }

\* Mutant of snapshotElapsed: the time goes to the slot at the frontier.
snapshotElapsedAtFrontier(session) ==
  LET delta == now - questionStartTime IN
  IF InRange(session.questions, frontierIndex)
  THEN [session.questions EXCEPT ![frontierIndex + 1].elapsedMs = @ + delta]
  ELSE session.questions

\* The questions array snapshotElapsed returns; it also restarts the clock.
snapshotElapsed(session) ==
  LET delta == now - questionStartTime IN
  IF InRange(session.questions, session.currentIndex)
  THEN [session.questions EXCEPT ![session.currentIndex + 1].elapsedMs = @ + delta]
  ELSE session.questions

\* The loop of finalizeQuiz over the slots from k on: the two tables after it.
\* Mutant of FinalizeLoop: every submitted answer is written with the points
\* of a correct answer.
RECURSIVE FinalizeLoopFlatPoints(_, _, _, _)
FinalizeLoopFlatPoints(questions, k, rows, answers) ==
  IF k > Len(questions) THEN [rows |-> rows, answers |-> answers]
  ELSE LET qq == questions[k]
           found == FindAnswer(qq.presentedAnswers, qq.submittedLabel) IN
       IF qq.submittedLabel = null \/ found = <<>>
       THEN FinalizeLoopFlatPoints(questions, k + 1, rows, answers)
       ELSE LET answer == found[1]
                points == scoreAnswer("correct") IN
            FinalizeLoopFlatPoints(questions, k + 1,
                         updateScore(rows, qq.question.id, points),
                         recordAnswer(answers, sessionId, qq.question.id, answer.category,
                                      points, qq.elapsedMs))

RECURSIVE FinalizeLoop(_, _, _, _)
FinalizeLoop(questions, k, rows, answers) ==
  IF k > Len(questions) THEN [rows |-> rows, answers |-> answers]
  ELSE LET qq == questions[k]
           found == FindAnswer(qq.presentedAnswers, qq.submittedLabel) IN
       IF qq.submittedLabel = null \/ found = <<>>
       THEN FinalizeLoop(questions, k + 1, rows, answers)
       ELSE LET answer == found[1]
                points == scoreAnswer(answer.category) IN
            FinalizeLoop(questions, k + 1,
                         updateScore(rows, qq.question.id, points),
                         recordAnswer(answers, sessionId, qq.question.id, answer.category,
                                      points, qq.elapsedMs))

\* Mutant of finalizeQuiz: nothing is written before the persistence write.
finalizeQuizDeferred(questions) == [rows |-> question_scores, answers |-> session_answers]

finalizeQuiz(questions) == FinalizeLoop(questions, 1, question_scores, session_answers)

NoAnswer == [first |-> null, last |-> null]

\* The state once the page has mounted and selectManifest has run: the
\* navigation tree is set, a score row is seeded for every question of the
\* manifest, and the stores hold no session.
Init ==
  /\ quizSession = <<>>
  /\ viewMode = "nav"
  /\ reviewIndex = <<>>
  /\ sessionId = 1
  /\ frontierIndex = 0
  /\ questionStartTime = 0
  /\ allNavNodes = NavTree
  /\ now = 0
  /\ question_scores = seedScores(<<>>, QuestionIds)
  /\ session_answers = <<>>
  /\ pending = 0
  /\ lastOp = "init"
  /\ answered = <<>>
  /\ call = <<>>

\* Mutant of startQuiz: the frontier of the previous session is kept.
startQuizKeepsFrontier(config, allQuestions, scores) ==
  /\ UNCHANGED call
  /\ sessionId < MaxSessions
  /\ sessionId' = sessionId + 1
  /\ UNCHANGED frontierIndex
  /\ LET pool == IF Len(config.selectedNodeIds) > 0
                 THEN filterByNodeIds(allQuestions, config.selectedNodeIds, allNavNodes)
                 ELSE allQuestions
     IN \E selected \in selectQuestions(pool, scores, config.questionCount, config.selectedTags) :
          \E questions \in FreshSlots(selected, config.answerCount) :
            /\ quizSession' = << [config |-> config, questions |-> questions,
                                  currentIndex |-> 0, completed |-> FALSE] >>
            /\ answered' = [k \in 1..Len(questions) |-> NoAnswer]
  /\ questionStartTime' = now
  /\ viewMode' = "quiz"
  /\ lastOp' = "startQuiz"
  /\ UNCHANGED <<reviewIndex, allNavNodes, now, question_scores, session_answers, pending>>

startQuiz(config, allQuestions, scores) ==
  /\ UNCHANGED call
  /\ sessionId < MaxSessions
  /\ sessionId' = sessionId + 1
  /\ frontierIndex' = 0
  /\ LET pool == IF Len(config.selectedNodeIds) > 0
                 THEN filterByNodeIds(allQuestions, config.selectedNodeIds, allNavNodes)
                 ELSE allQuestions
     IN \E selected \in selectQuestions(pool, scores, config.questionCount, config.selectedTags) :
          \E questions \in FreshSlots(selected, config.answerCount) :
            /\ quizSession' = << [config |-> config, questions |-> questions,
                                  currentIndex |-> 0, completed |-> FALSE] >>
            /\ answered' = [k \in 1..Len(questions) |-> NoAnswer]
  /\ questionStartTime' = now
  /\ viewMode' = "quiz"
  /\ lastOp' = "startQuiz"
  /\ UNCHANGED <<reviewIndex, allNavNodes, now, question_scores, session_answers, pending>>

\* Mutant of isEditing: the comparison is inverted.
isEditingInverted(session) == session.currentIndex > frontierIndex

\* Mutant of isEditing: the slot just below the frontier does not count as
\* an edit.
isEditingBelowPrevious(session) == session.currentIndex < frontierIndex - 1

\* const isEditing = session.currentIndex < frontierIndex
isEditing(session) == session.currentIndex < frontierIndex

\* Mutant of isLast: the slot before the last one already counts as last.
isLastOffByOne(session) == frontierIndex >= Len(session.questions) - 2

\* Mutant of isLast: every submission at the frontier is taken for the last.
isLastAlways(session) == frontierIndex >= 0

\* const isLast = frontierIndex >= session.questions.length - 1
isLast(session) == frontierIndex >= Len(session.questions) - 1

\* Mutant of submitReturnsEarly: the label is not looked up among the
\* presented answers.
submitReturnsEarlyAnyLabel(label) ==
  \/ ~HasSession
  \/ ~InRange(Session.questions, Session.currentIndex)

\* The early returns of submitAnswer: no session, no current slot, or no
\* presented answer with that label.
submitReturnsEarly(label) ==
  \/ ~HasSession
  \/ ~InRange(Session.questions, Session.currentIndex)
  \/ FindAnswer(Session.questions[Session.currentIndex + 1].presentedAnswers, label) = <<>>

\* Mutant of stampedQuestions: a slot that has an answer of record keeps it.
stampedQuestionsKeepFirst(session, label) ==
  LET old == session.questions[session.currentIndex + 1].submittedLabel
      kept == IF old = null THEN label ELSE old
  IN [snapshotElapsed(session) EXCEPT ![session.currentIndex + 1].selectedLabel = label,
                                      ![session.currentIndex + 1].submittedLabel = kept]

\* Mutant of stampedQuestions: submittedLabel is not stamped.
stampedQuestionsSelectedOnly(session, label) ==
  [snapshotElapsed(session) EXCEPT ![session.currentIndex + 1].selectedLabel = label]

\* snapshotElapsed, then the stamp of selectedLabel and submittedLabel.
stampedQuestions(session, label) ==
  [snapshotElapsed(session) EXCEPT ![session.currentIndex + 1].selectedLabel = label,
                                   ![session.currentIndex + 1].submittedLabel = label]

\* submitAnswer up to its suspension in persistDatabase (or to its return).
submitAnswer(label) ==
  /\ UNCHANGED call
  /\ lastOp' = "submitAnswer"
  /\ UNCHANGED <<reviewIndex, sessionId, allNavNodes, now, viewMode>>
  /\ IF submitReturnsEarly(label)
     THEN UNCHANGED <<quizSession, frontierIndex, questionStartTime, question_scores,
                      session_answers, pending, answered>>
     ELSE LET session == Session
              updatedQuestions == stampedQuestions(session, label) IN
          /\ questionStartTime' = now
          /\ answered' = [answered EXCEPT ![session.currentIndex + 1] =
                            [first |-> IF @.first = null THEN label ELSE @.first,
                             last |-> label]]
          /\ IF isEditing(session)
             THEN /\ quizSession' = << [session EXCEPT !.questions = updatedQuestions,
                                                       !.currentIndex = frontierIndex] >>
                  /\ UNCHANGED <<frontierIndex, question_scores, session_answers, pending>>
             ELSE IF isLast(session)
             THEN /\ pending < MaxPending
                  /\ Len(session_answers) + Len(updatedQuestions) <= MaxLog
                  /\ quizSession' = << [session EXCEPT !.questions = updatedQuestions,
                                                       !.completed = TRUE] >>
                  /\ question_scores' = finalizeQuiz(updatedQuestions).rows
                  /\ session_answers' = finalizeQuiz(updatedQuestions).answers
                  /\ pending' = pending + 1
                  /\ UNCHANGED frontierIndex
             ELSE /\ frontierIndex' = session.currentIndex + 1
                  /\ quizSession' = << [session EXCEPT !.questions = updatedQuestions,
                                                       !.currentIndex = session.currentIndex + 1,
                                                       !.completed = FALSE] >>
                  /\ UNCHANGED <<question_scores, session_answers, pending>>

\* persistDatabase resolves: the suspended submitAnswer goes on to
\* viewMode.set('summary') and returns.
persistResolved ==
  /\ UNCHANGED call
  /\ pending > 0
  /\ pending' = pending - 1
  /\ viewMode' = "summary"
  /\ lastOp' = "persistResolved"
  /\ UNCHANGED <<quizSession, reviewIndex, sessionId, frontierIndex, questionStartTime,
                 allNavNodes, now, question_scores, session_answers, answered>>

\* Mutant of persistRejected: the write is attempted again after it rejected.
persistRejectedRetries ==
  /\ UNCHANGED call
  /\ pending > 0
  /\ pending' = pending
  /\ lastOp' = "persistRejected"
  /\ UNCHANGED <<quizSession, viewMode, reviewIndex, sessionId, frontierIndex,
                 questionStartTime, allNavNodes, now, question_scores, session_answers,
                 answered>>

\* persistDatabase rejects: the rejection leaves finalizeQuiz and submitAnswer,
\* which has no handler, and viewMode.set('summary') is not reached.
persistRejected ==
  /\ UNCHANGED call
  /\ pending > 0
  /\ pending' = pending - 1
  /\ lastOp' = "persistRejected"
  /\ UNCHANGED <<quizSession, viewMode, reviewIndex, sessionId, frontierIndex,
                 questionStartTime, allNavNodes, now, question_scores, session_answers,
                 answered>>

\* Mutant of editReturnsEarly: the index is not compared with the frontier.
editReturnsEarlyNoFrontier(index) == ~HasSession

\* if (!session || index >= frontierIndex) return
editReturnsEarly(index) == ~HasSession \/ index >= frontierIndex

\* Mutant of editAnsweredQuestion: going back to a slot takes the frontier
\* back with it.
editAnsweredQuestionRewinds(index) ==
  /\ UNCHANGED call
  /\ lastOp' = "editAnsweredQuestion"
  /\ UNCHANGED <<sessionId, allNavNodes, now, question_scores, session_answers, pending,
                 answered>>
  /\ IF ~HasSession \/ index >= frontierIndex
     THEN UNCHANGED <<quizSession, frontierIndex, questionStartTime, reviewIndex, viewMode>>
     ELSE /\ quizSession' = << [Session EXCEPT !.questions = snapshotElapsed(Session),
                                               !.currentIndex = index] >>
          /\ frontierIndex' = index
          /\ questionStartTime' = now
          /\ reviewIndex' = <<>>
          /\ viewMode' = "quiz"

\* Mutant of editAnsweredQuestion: the slot gone back to gets its answers
\* presented anew.
editAnsweredQuestionRegenerates(index) ==
  /\ UNCHANGED call
  /\ lastOp' = "editAnsweredQuestion"
  /\ UNCHANGED <<sessionId, frontierIndex, allNavNodes, now, question_scores,
                 session_answers, pending, answered>>
  /\ IF editReturnsEarly(index)
     THEN UNCHANGED <<quizSession, questionStartTime, reviewIndex, viewMode>>
     ELSE /\ \E presented \in IF InRange(Session.questions, index)
                              THEN presentAnswers(Session.questions[index + 1].question,
                                                  Session.config.answerCount)
                              ELSE {<<>>} :
               quizSession' = << [Session EXCEPT
                   !.questions = IF InRange(Session.questions, index)
                                 THEN [snapshotElapsed(Session) EXCEPT
                                         ![index + 1].presentedAnswers = presented]
                                 ELSE snapshotElapsed(Session),
                   !.currentIndex = index] >>
          /\ questionStartTime' = now
          /\ reviewIndex' = <<>>
          /\ viewMode' = "quiz"

editAnsweredQuestion(index) ==
  /\ UNCHANGED call
  /\ lastOp' = "editAnsweredQuestion"
  /\ UNCHANGED <<sessionId, frontierIndex, allNavNodes, now, question_scores,
                 session_answers, pending, answered>>
  /\ IF editReturnsEarly(index)
     THEN UNCHANGED <<quizSession, questionStartTime, reviewIndex, viewMode>>
     ELSE /\ quizSession' = << [Session EXCEPT !.questions = snapshotElapsed(Session),
                                               !.currentIndex = index] >>
          /\ questionStartTime' = now
          /\ reviewIndex' = <<>>
          /\ viewMode' = "quiz"

\* Mutant of retakeQuiz: the attempt goes on under the session id it had.
retakeQuizSameSessionId ==
  /\ UNCHANGED call
  /\ lastOp' = "retakeQuiz"
  /\ UNCHANGED <<reviewIndex, allNavNodes, now, question_scores, session_answers, pending,
                 sessionId>>
  /\ IF ~HasSession
     THEN UNCHANGED <<quizSession, frontierIndex, questionStartTime, viewMode, answered>>
     ELSE /\ frontierIndex' = 0
          /\ \E questions \in FreshSlots([i \in 1..Len(Session.questions) |->
                                             Session.questions[i].question],
                                         Session.config.answerCount) :
               quizSession' = << [Session EXCEPT !.questions = questions,
                                                 !.currentIndex = 0,
                                                 !.completed = FALSE] >>
          /\ answered' = [k \in 1..Len(Session.questions) |-> NoAnswer]
          /\ questionStartTime' = now
          /\ viewMode' = "quiz"

retakeQuiz ==
  /\ UNCHANGED call
  /\ lastOp' = "retakeQuiz"
  /\ UNCHANGED <<reviewIndex, allNavNodes, now, question_scores, session_answers, pending>>
  /\ IF ~HasSession
     THEN UNCHANGED <<quizSession, sessionId, frontierIndex, questionStartTime, viewMode,
                      answered>>
     ELSE /\ sessionId < MaxSessions
          /\ sessionId' = sessionId + 1
          /\ frontierIndex' = 0
          /\ \E questions \in FreshSlots([i \in 1..Len(Session.questions) |->
                                             Session.questions[i].question],
                                         Session.config.answerCount) :
               quizSession' = << [Session EXCEPT !.questions = questions,
                                                 !.currentIndex = 0,
                                                 !.completed = FALSE] >>
          /\ answered' = [k \in 1..Len(Session.questions) |-> NoAnswer]
          /\ questionStartTime' = now
          /\ viewMode' = "quiz"

\* Mutant of newQuiz: the view goes to the configuration screen.
newQuizToConfig ==
  /\ UNCHANGED call
  /\ quizSession' = <<>>
  /\ reviewIndex' = <<>>
  /\ viewMode' = "config"
  /\ answered' = <<>>
  /\ lastOp' = "newQuiz"
  /\ UNCHANGED <<sessionId, frontierIndex, questionStartTime, allNavNodes, now,
                 question_scores, session_answers, pending>>

newQuiz ==
  /\ UNCHANGED call
  /\ quizSession' = <<>>
  /\ reviewIndex' = <<>>
  /\ viewMode' = "nav"
  /\ answered' = <<>>
  /\ lastOp' = "newQuiz"
  /\ UNCHANGED <<sessionId, frontierIndex, questionStartTime, allNavNodes, now,
                 question_scores, session_answers, pending>>

quitQuiz ==
  /\ UNCHANGED call
  /\ quizSession' = <<>>
  /\ reviewIndex' = <<>>
  /\ viewMode' = "nav"
  /\ answered' = <<>>
  /\ lastOp' = "quitQuiz"
  /\ UNCHANGED <<sessionId, frontierIndex, questionStartTime, allNavNodes, now,
                 question_scores, session_answers, pending>>

\* Mutant of showReturnsEarly: the frontier is not looked at.
showReturnsEarlyNoFrontier == ~HasSession

\* if (!session || frontierIndex === 0) return
showReturnsEarly == ~HasSession \/ frontierIndex = 0

showAnsweredQuestions ==
  /\ UNCHANGED call
  /\ lastOp' = "showAnsweredQuestions"
  /\ UNCHANGED <<sessionId, frontierIndex, allNavNodes, now, question_scores,
                 session_answers, pending, answered>>
  /\ IF showReturnsEarly
     THEN UNCHANGED <<quizSession, questionStartTime, reviewIndex, viewMode>>
     ELSE /\ quizSession' = << [Session EXCEPT !.questions = snapshotElapsed(Session)] >>
          /\ questionStartTime' = now
          /\ reviewIndex' = <<>>
          /\ viewMode' = "quiz-answered"

\* Mutant of backToQuiz: currentIndex is left where it is.
backToQuizKeepsIndex ==
  /\ UNCHANGED call
  /\ UNCHANGED quizSession
  /\ questionStartTime' = now
  /\ reviewIndex' = <<>>
  /\ viewMode' = "quiz"
  /\ lastOp' = "backToQuiz"
  /\ UNCHANGED <<sessionId, frontierIndex, allNavNodes, now, question_scores,
                 session_answers, pending, answered>>

\* Mutant of backToQuiz: the time since the clock was restarted is added to
\* the current slot before the index is restored.
backToQuizSnapshots ==
  /\ UNCHANGED call
  /\ quizSession' = IF HasSession
                    THEN << [Session EXCEPT !.questions = snapshotElapsed(Session),
                                            !.currentIndex = frontierIndex] >>
                    ELSE quizSession
  /\ questionStartTime' = now
  /\ reviewIndex' = <<>>
  /\ viewMode' = "quiz"
  /\ lastOp' = "backToQuiz"
  /\ UNCHANGED <<sessionId, frontierIndex, allNavNodes, now, question_scores,
                 session_answers, pending, answered>>

backToQuiz ==
  /\ UNCHANGED call
  /\ quizSession' = IF HasSession
                    THEN << [Session EXCEPT !.currentIndex = frontierIndex] >>
                    ELSE quizSession
  /\ questionStartTime' = now
  /\ reviewIndex' = <<>>
  /\ viewMode' = "quiz"
  /\ lastOp' = "backToQuiz"
  /\ UNCHANGED <<sessionId, frontierIndex, allNavNodes, now, question_scores,
                 session_answers, pending, answered>>

\* Time passes between two calls.
Tick ==
  /\ UNCHANGED call
  /\ now < MaxTime
  /\ now' = now + 1
  /\ UNCHANGED <<quizSession, viewMode, reviewIndex, sessionId, frontierIndex,
                 questionStartTime, allNavNodes, question_scores, session_answers,
                 pending, lastOp, answered>>

Next ==
  \/ \E config \in Configs, scores \in {<<>>, getScores(question_scores)} :
       startQuiz(config, Questions, scores)
  \/ \E label \in LabelArgs : submitAnswer(label)
  \/ persistResolved
  \/ persistRejected
  \/ \E index \in IndexArgs : editAnsweredQuestion(index)
  \/ retakeQuiz
  \/ newQuiz
  \/ quitQuiz
  \/ showAnsweredQuestions
  \/ backToQuiz
  \/ Tick

Spec == Init /\ [][Next]_vars

\* ------------------------------------------------------------------------
\* Direct calls of selectQuestions
\* ------------------------------------------------------------------------
MaxCount == 3

\* The questions the pools of a direct call are made of.
SelectBank ==
  Questions \o << [id |-> "q3", tags |-> <<"art", "math">>, answers |-> <<Answer(1, "correct")>>] >>

\* Every array of distinct questions of the bank, in every order.
SelectPools ==
  UNION { { [i \in 1..n |-> SelectBank[f[i]]] :
              f \in { g \in [1..n -> 1..Len(SelectBank)] :
                        \A i, j \in 1..n : i # j => g[i] # g[j] } } :
          n \in 0..Len(SelectBank) }

ScoreEntries ==
  { [questionId |-> SelectBank[i].id, cumulativeScore |-> v] :
      i \in 1..Len(SelectBank), v \in {-2, 0, 1} }

\* Score snapshots of up to two entries: ids may be missing from a snapshot.
SelectScores ==
  {<<>>} \cup {<<e>> : e \in ScoreEntries} \cup {<<e, f>> : e, f \in ScoreEntries}

SelectTagArgs == {<<>>, <<"math">>, <<"art", "math">>, <<"zzz">>}

InitSelect ==
  /\ quizSession = <<>>
  /\ viewMode = "nav"
  /\ reviewIndex = <<>>
  /\ sessionId = 1
  /\ frontierIndex = 0
  /\ questionStartTime = 0
  /\ allNavNodes = NavTree
  /\ now = 0
  /\ question_scores = seedScores(<<>>, QuestionIds)
  /\ session_answers = <<>>
  /\ pending = 0
  /\ lastOp = "init"
  /\ answered = <<>>
  /\ call \in { [questions |-> questions, scores |-> scores, count |-> count,
                  selectedTags |-> selectedTags, returned |-> FALSE, result |-> <<>>] :
                  questions \in SelectPools, scores \in SelectScores,
                  count \in 0..MaxCount, selectedTags \in SelectTagArgs }

\* selectQuestions(questions, scores, count, selectedTags) is called and returns.
callSelectQuestions ==
  /\ ~call.returned
  /\ \E result \in selectQuestions(call.questions, call.scores, call.count, call.selectedTags) :
       call' = [call EXCEPT !.returned = TRUE, !.result = result]
  /\ UNCHANGED <<quizSession, viewMode, reviewIndex, sessionId, frontierIndex,
                 questionStartTime, allNavNodes, now, question_scores, session_answers,
                 pending, lastOp, answered>>

NextSelect == callSelectQuestions

SpecSelect == InitSelect /\ [][NextSelect]_vars

\* ------------------------------------------------------------------------
\* Direct calls of presentAnswers
\* ------------------------------------------------------------------------

\* The lifecycle is idle while a pure function is called directly.
IdleLifecycle ==
  /\ quizSession = <<>>
  /\ viewMode = "nav"
  /\ reviewIndex = <<>>
  /\ sessionId = 1
  /\ frontierIndex = 0
  /\ questionStartTime = 0
  /\ allNavNodes = NavTree
  /\ now = 0
  /\ question_scores = seedScores(<<>>, QuestionIds)
  /\ session_answers = <<>>
  /\ pending = 0
  /\ lastOp = "init"
  /\ answered = <<>>

lifecycleVars ==
  <<quizSession, viewMode, reviewIndex, sessionId, frontierIndex, questionStartTime,
    allNavNodes, now, question_scores, session_answers, pending, lastOp, answered>>

\* Questions presentAnswers is called with: one correct answer among five,
\* two correct answers among five, one correct answer among six, and a short
\* question of two answers.
PresentBank ==
  { [id |-> "p1", tags |-> <<>>,
     answers |-> <<Answer(1, "correct"), Answer(2, "partially_correct"),
                   Answer(3, "incorrect"), Answer(4, "ridiculous"), Answer(5, "incorrect")>>],
    [id |-> "p2", tags |-> <<>>,
     answers |-> <<Answer(1, "correct"), Answer(2, "correct"),
                   Answer(3, "partially_correct"), Answer(4, "incorrect"),
                   Answer(5, "ridiculous")>>],
    [id |-> "p3", tags |-> <<>>,
     answers |-> <<Answer(1, "partially_correct"), Answer(2, "correct"),
                   Answer(3, "incorrect"), Answer(4, "ridiculous"),
                   Answer(5, "ridiculous"), Answer(6, "partially_correct")>>],
    [id |-> "p4", tags |-> <<>>,
     answers |-> <<Answer(1, "correct"), Answer(2, "incorrect")>>] }

AnswerCounts == {3, 4, 5}

InitPresent ==
  /\ IdleLifecycle
  /\ call \in { [question |-> question, answerCount |-> answerCount,
                  returned |-> FALSE, result |-> <<>>] :
                  question \in PresentBank, answerCount \in AnswerCounts }

\* presentAnswers(question, answerCount) is called and returns.
callPresentAnswers ==
  /\ ~call.returned
  /\ \E result \in presentAnswers(call.question, call.answerCount) :
       call' = [call EXCEPT !.returned = TRUE, !.result = result]
  /\ UNCHANGED lifecycleVars

NextPresent == callPresentAnswers

SpecPresent == InitPresent /\ [][NextPresent]_vars

\* ------------------------------------------------------------------------
\* IEEE 754 double arithmetic of computeMastery
\* ------------------------------------------------------------------------
\* A positive double is [m, e]: m is its 53-bit significand, most significant
\* bit first, and the value is m * 2^e. Zero is [m |-> <<>>, e |-> 0].
MantissaBits == 53

Zeros(n) == [i \in 1..n |-> 0]

RECURSIVE BitsToNat(_)
BitsToNat(b) ==
  IF b = <<>> THEN 0 ELSE 2 * BitsToNat(SubSeq(b, 1, Len(b) - 1)) + b[Len(b)]

RECURSIVE StripZeros(_)
StripZeros(b) == IF b # <<>> /\ b[1] = 0 THEN StripZeros(Tail(b)) ELSE b

\* a + b of two bit strings, with one more bit than the longer of them; the
\* carry into a place comes from the nearest place to its right where both
\* bits are set, through places where one bit is set.
AddBits(a, b) ==
  LET n == 1 + (IF Len(a) >= Len(b) THEN Len(a) ELSE Len(b))
      x == Zeros(n - Len(a)) \o a
      y == Zeros(n - Len(b)) \o b
      carry(i) == IF \E j \in (i + 1)..n :
                       /\ x[j] = 1 /\ y[j] = 1
                       /\ \A k \in (i + 1)..(j - 1) : x[k] + y[k] >= 1
                  THEN 1 ELSE 0
  IN [i \in 1..n |-> (x[i] + y[i] + carry(i)) % 2]

\* Round to nearest, ties to even: bits (leading bit 1, at least 53 of them)
\* times 2^e, with sticky telling that more non-zero bits follow.
RoundToDouble(bits, e, sticky) ==
  LET extra == Len(bits) - MantissaBits
      kept == SubSeq(bits, 1, MantissaBits)
      roundBit == IF extra >= 1 THEN bits[MantissaBits + 1] ELSE 0
      rest == sticky \/ \E i \in (MantissaBits + 2)..Len(bits) : bits[i] = 1
      roundUp == roundBit = 1 /\ (rest \/ kept[MantissaBits] = 1)
      sum == AddBits(kept, <<1>>)
  IN IF ~roundUp THEN [m |-> kept, e |-> e + extra]
     ELSE IF sum[1] = 1 THEN [m |-> SubSeq(sum, 1, MantissaBits), e |-> e + extra + 1]
     ELSE [m |-> Tail(sum), e |-> e + extra]

\* Long division r / t below the binary point: the first 54 significant bits,
\* the number of places produced and whether a remainder is left.
RECURSIVE DivBits(_, _, _, _)
DivBits(r, t, bits, places) ==
  IF Len(bits) = MantissaBits + 1
  THEN [bits |-> bits, places |-> places, sticky |-> r # 0]
  ELSE LET bit == IF 2 * r >= t THEN 1 ELSE 0
       IN DivBits(2 * r - bit * t, t,
                  IF bits = <<>> /\ bit = 0 THEN <<>> ELSE Append(bits, bit),
                  places + 1)

\* The double positive / total for 0 <= positive <= total, total > 0.
DoubleDiv(positive, total) ==
  IF positive = 0 THEN [m |-> <<>>, e |-> 0]
  ELSE LET d == DivBits(positive % total, total,
                        IF positive >= total THEN <<1>> ELSE <<>>, 0)
       IN RoundToDouble(d.bits, -d.places, d.sticky)

\* The double x * 100: 100 = 64 + 32 + 4.
DoubleTimes100(d) ==
  IF d.m = <<>> THEN d
  ELSE LET product == AddBits(AddBits(d.m \o Zeros(6), d.m \o Zeros(5)), d.m \o Zeros(2))
       IN RoundToDouble(StripZeros(product), d.e, FALSE)

\* Math.round of a non-negative double below 2^52: the integer part, plus one
\* when the fraction is at least one half.
MathRound(d) ==
  IF d.m = <<>> THEN 0
  ELSE LET intBits == MantissaBits + d.e
           half == IF intBits >= 0 /\ intBits < MantissaBits THEN d.m[intBits + 1] ELSE 0
       IN BitsToNat(SubSeq(d.m, 1, intBits)) + half

\* computeMastery: the percentage is Math.round((positive / total) * 100),
\* computed in doubles.
computeMastery(questionIds, scores) ==
  IF Len(questionIds) = 0 THEN [total |-> 0, positive |-> 0, percent |-> 0]
  ELSE LET total == Len(questionIds)
           positive == Cardinality({i \in 1..total : ScoreOf(scores, questionIds[i]) > 0})
       IN [total |-> total, positive |-> positive,
           percent |-> MathRound(DoubleTimes100(DoubleDiv(positive, total)))]

\* ------------------------------------------------------------------------
\* Direct calls of computeMastery
\* ------------------------------------------------------------------------
MaxIds == 40

\* A snapshot for the ids 1..n in which the first k have a positive score and
\* the others are absent, at zero or negative; "stray" adds a positive score
\* for an id outside the list.
MasteryRest == {"absent", "zero", "negative", "stray"}

MasteryScores(n, k, rest) ==
  [i \in 1..k |-> [questionId |-> i, cumulativeScore |-> 1]]
  \o (IF rest = "zero" THEN [i \in 1..(n - k) |-> [questionId |-> k + i, cumulativeScore |-> 0]]
      ELSE IF rest = "negative"
           THEN [i \in 1..(n - k) |-> [questionId |-> k + i, cumulativeScore |-> -2]]
      ELSE IF rest = "stray" THEN <<[questionId |-> n + 1, cumulativeScore |-> 3]>>
      ELSE <<>>)

InitMastery ==
  /\ IdleLifecycle
  /\ call \in UNION { { [questionIds |-> [i \in 1..n |-> i],
                         scores |-> MasteryScores(n, k, rest),
                         returned |-> FALSE, result |-> <<>>] :
                         k \in 0..n, rest \in MasteryRest } : n \in 0..MaxIds }

\* computeMastery(questionIds, scores) is called and returns.
callComputeMastery ==
  /\ ~call.returned
  /\ call' = [call EXCEPT !.returned = TRUE,
                          !.result = computeMastery(call.questionIds, call.scores)]
  /\ UNCHANGED lifecycleVars

NextMastery == callComputeMastery

SpecMastery == InitMastery /\ [][NextMastery]_vars

\* ------------------------------------------------------------------------
\* Direct calls of weightedRandomIndex
\* ------------------------------------------------------------------------
MaxWeights == 3
MaxWeight == 3

\* Non-empty arrays of positive weights.
WeightArgs == UNION { [1..n -> 1..MaxWeight] : n \in 1..MaxWeights }

\* The draws: random * total lies in [0, total]; the draw total + 1 stands
\* for a residue above zero left by rounding after the last subtraction.
DrawArgs(weights) == 0..(Sum(weights) + 1)

InitWeighted ==
  /\ IdleLifecycle
  /\ call \in UNION { { [weights |-> weights, r |-> r, returned |-> FALSE, result |-> <<>>] :
                         r \in DrawArgs(weights) } : weights \in WeightArgs }

\* weightedRandomIndex(weights) is called with the draw r and returns.
callWeightedRandomIndex ==
  /\ ~call.returned
  /\ call' = [call EXCEPT !.returned = TRUE,
                          !.result = weightedRandomIndex(call.weights, call.r)]
  /\ UNCHANGED lifecycleVars

NextWeighted == callWeightedRandomIndex

SpecWeighted == InitWeighted /\ [][NextWeighted]_vars

\* ------------------------------------------------------------------------
\* Sessions started on a navigation scope
\* ------------------------------------------------------------------------

\* Navigation trees as the builder compiles them: the questionIds of a node
\* are the question ids of its whole subtree.
DirectoryTree ==
  << [id |-> "d1", questionIds |-> <<"q1", "q2">>,
      children |->
        << [id |-> "t1", questionIds |-> <<"q1">>,
            children |-> << [id |-> "s1", questionIds |-> <<"q1">>, children |-> <<>>] >>],
           [id |-> "t2", questionIds |-> <<"q2">>, children |-> <<>>] >>] >>

ForeignTree ==
  << [id |-> "t1", questionIds |-> <<"q9", "q2">>,
      children |-> << [id |-> "s1", questionIds |-> <<"q9">>, children |-> <<>>] >>] >>

ScopeTrees == {NavTree, DirectoryTree, ForeignTree, <<>>}

NodeIdArgs == {"d1", "t1", "s1", "t2", "zz"}

ScopeConfigs ==
  { Config(n, tags, nodeIds) :
      n \in 1..2, tags \in {<<>>, <<"math">>},
      nodeIds \in {<<>>} \cup {<<a>> : a \in NodeIdArgs}
                  \cup {<<a, b>> : a, b \in NodeIdArgs} }

setNavNodes(nodes) ==
  /\ UNCHANGED call
  /\ allNavNodes' = nodes
  /\ lastOp' = "setNavNodes"
  /\ UNCHANGED <<quizSession, viewMode, reviewIndex, sessionId, frontierIndex,
                 questionStartTime, now, question_scores, session_answers, pending,
                 answered>>

NextScope ==
  \/ \E nodes \in ScopeTrees : setNavNodes(nodes)
  \/ \E config \in ScopeConfigs : startQuiz(config, Questions, getScores(question_scores))

SpecScope == Init /\ [][NextScope]_vars

\* ------------------------------------------------------------------------
\* Sessions on a store that was not seeded for every question
\* ------------------------------------------------------------------------

\* The store holds a score row for some of the questions only: startQuiz is
\* handed questions that seedScores was not called for.
InitUnseeded ==
  /\ quizSession = <<>>
  /\ viewMode = "nav"
  /\ reviewIndex = <<>>
  /\ sessionId = 1
  /\ frontierIndex = 0
  /\ questionStartTime = 0
  /\ allNavNodes = NavTree
  /\ now = 0
  /\ question_scores \in {seedScores(<<>>, ids) : ids \in SUBSET QuestionIds}
  /\ session_answers = <<>>
  /\ pending = 0
  /\ lastOp = "init"
  /\ answered = <<>>
  /\ call = <<>>

SpecUnseeded == InitUnseeded /\ [][Next]_vars

\* ------------------------------------------------------------------------
\* Properties of the session lifecycle
\* ------------------------------------------------------------------------
Slots == Session.questions

Submitted(k) == Slots[k + 1].submittedLabel # null

\* The presented answer of a slot that carries the label.
AnswerOf(slot, label) == CHOOSE a \in Range(slot.presentedAnswers) : a.label = label

\* A step in which the completed flag goes from false to true.
CompletingStep ==
  /\ HasSession /\ ~Session.completed
  /\ quizSession' # <<>> /\ quizSession'[1].completed

\* C1: within one attempt finalize runs exactly once: under one session id a
\* question receives at most one session-answer record.
C1_ScoredOncePerAttempt ==
  \A i, j \in 1..Len(session_answers) :
    (/\ i # j
     /\ session_answers[i].sessionId = session_answers[j].sessionId)
    => session_answers[i].questionId # session_answers[j].questionId

\* C2: submitAnswer on a session that is already completed changes nothing: the
\* session, the frontier, the scores and the log stay as they are.
C2_SubmitOnCompletedIsNoOp ==
  [][(HasSession /\ Session.completed /\ lastOp' = "submitAnswer")
     => UNCHANGED <<quizSession, frontierIndex, question_scores, session_answers>>]_vars

C4_FinalAnswerScoredOnce ==
  [][CompletingStep =>
       LET qs == quizSession'[1].questions
           base == Len(session_answers) IN
       /\ Len(session_answers') = base + Len(qs)
       /\ SubSeq(session_answers', 1, base) = session_answers
       /\ \A k \in 1..Len(qs) :
            LET rec == session_answers'[base + k]
                a == AnswerOf(qs[k], answered'[k].last)
                id == qs[k].question.id IN
            /\ rec.sessionId = sessionId
            /\ rec.questionId = id
            /\ rec.category = a.category
            /\ rec.points = scoreAnswer(a.category)
            /\ question_scores'[id] = question_scores[id] + scoreAnswer(a.category)]_vars

C4_Witness ==
  /\ HasSession /\ Session.completed
  /\ lastOp = "submitAnswer"
  /\ \E k \in 1..Len(answered) :
       /\ answered[k].first # answered[k].last
       /\ \E i \in 1..Len(session_answers) :
            /\ session_answers[i].questionId = Slots[k].question.id
            /\ session_answers[i].category = AnswerOf(Slots[k], answered[k].last).category
            /\ session_answers[i].category # AnswerOf(Slots[k], answered[k].first).category

\* C5: while a session with at least one slot exists, currentIndex is the
\* index of one of its slots.
C5_CurrentIndexInRange ==
  (HasSession /\ Len(Slots) >= 1) =>
    (0 <= Session.currentIndex /\ Session.currentIndex <= Len(Slots) - 1)

\* C6 as claimed: a slot has a submitted label if and only if its index is
\* below the frontier.
C6_SubmittedIffBelowFrontier ==
  HasSession => \A k \in 0..(Len(Slots) - 1) : Submitted(k) <=> k < frontierIndex

\* C6 as amended: a slot has a submitted label if and only if its index is
\* below the frontier or the session is completed and the slot is the one at
\* the frontier, which completion leaves at the last index.
C6_SubmittedIffBelowFrontierOrCompleted ==
  HasSession =>
    \A k \in 0..(Len(Slots) - 1) :
      Submitted(k) <=> (k < frontierIndex \/ (Session.completed /\ k = frontierIndex))

C6_Witness ==
  /\ HasSession /\ Session.completed
  /\ Len(Slots) = 2 /\ frontierIndex = 1
  /\ Submitted(0) /\ Submitted(1)

\* C7: the frontier never decreases and never exceeds the number of slots; it
\* goes back to 0 only in retakeQuiz and startQuiz.
C7_FrontierMonotone ==
  [][/\ frontierIndex' >= frontierIndex \/ lastOp' \in {"retakeQuiz", "startQuiz"}
     /\ quizSession' # <<>> => frontierIndex' <= Len(quizSession'[1].questions)]_vars

C7_Witness ==
  /\ HasSession /\ ~Session.completed
  /\ frontierIndex = 1 /\ Session.currentIndex = 1
  /\ \E k \in 1..Len(answered) : answered[k].first # answered[k].last

\* C8: editAnsweredQuestion(index) with index >= frontier or index < 0 changes
\* neither the session nor the frontier, the elapsed clock or the view mode.
C8_EditOutOfRangeIgnored ==
  [][\A index \in IndexArgs :
       (/\ HasSession
        /\ index >= frontierIndex \/ index < 0
        /\ editAnsweredQuestion(index))
       => UNCHANGED <<quizSession, frontierIndex, questionStartTime, viewMode>>]_vars

\* C9: without a session submitAnswer, editAnsweredQuestion,
\* showAnsweredQuestions, backToQuiz and retakeQuiz change neither the session,
\* the view mode, the review index, the scores nor the log.
C9_NoSessionNoOp ==
  [][(/\ ~HasSession
      /\ lastOp' \in {"submitAnswer", "editAnsweredQuestion", "showAnsweredQuestions",
                      "backToQuiz", "retakeQuiz"})
     => UNCHANGED <<quizSession, viewMode, reviewIndex, question_scores, session_answers>>]_vars

\* C10: submitAnswer with a label that none of the current slot's presented
\* answers carries changes neither the session (index, labels, elapsed times,
\* completed flag), the frontier, the elapsed clock, the scores nor the log.
C10_InvalidLabelIgnored ==
  [][\A label \in LabelArgs :
       (/\ HasSession
        /\ InRange(Slots, Session.currentIndex)
        /\ \A a \in Range(Slots[Session.currentIndex + 1].presentedAnswers) : a.label # label
        /\ submitAnswer(label))
       => UNCHANGED <<quizSession, frontierIndex, questionStartTime, question_scores,
                      session_answers>>]_vars

C10_Witness ==
  /\ lastOp = "submitAnswer"
  /\ HasSession /\ ~Session.completed
  /\ Len(Slots) >= 1 /\ frontierIndex = 0 /\ Session.currentIndex = 0
  /\ ~Submitted(0)
  /\ now > questionStartTime

\* The label is the label of one of the current slot's presented answers.
ValidLabel(label) ==
  /\ HasSession
  /\ InRange(Slots, Session.currentIndex)
  /\ \E a \in Range(Slots[Session.currentIndex + 1].presentedAnswers) : a.label = label

\* C11: a submitAnswer with a valid label on a slot below the frontier (the
\* slot editAnsweredQuestion selected) stamps the new label on that slot,
\* takes currentIndex back to the frontier, and leaves the frontier, the
\* completed flag and the submitted labels of all other slots as they were.
C11_EditThenResubmit ==
  [][\A label \in LabelArgs :
       (/\ ValidLabel(label)
        /\ Session.currentIndex < frontierIndex
        /\ submitAnswer(label))
       => LET i == Session.currentIndex + 1 IN
          /\ quizSession' # <<>>
          /\ quizSession'[1].questions[i].submittedLabel = label
          /\ quizSession'[1].currentIndex = frontierIndex
          /\ frontierIndex' = frontierIndex
          /\ quizSession'[1].completed = Session.completed
          /\ \A k \in 1..Len(Slots) :
               k # i => quizSession'[1].questions[k].submittedLabel = Slots[k].submittedLabel]_vars

C11_Witness ==
  /\ lastOp = "submitAnswer"
  /\ HasSession /\ ~Session.completed
  /\ Len(Slots) = 2 /\ frontierIndex = 1 /\ Session.currentIndex = 1
  /\ answered[1].first = "a" /\ answered[1].last = "b"
  /\ Slots[1].submittedLabel = "b" /\ ~Submitted(1)

\* C12: a submitAnswer with a valid label at the frontier moves the frontier
\* and currentIndex one slot on and leaves completed false while the frontier
\* is below the last slot; at the last slot it sets completed and runs
\* finalize, one log record per slot, and is left suspended in the write.
\* The session completes in no other step, and only with every slot submitted.
C12_ForwardProgression ==
  [][/\ \A label \in LabelArgs :
          (/\ ValidLabel(label)
           /\ Session.currentIndex = frontierIndex
           /\ submitAnswer(label))
          => /\ quizSession' # <<>>
             /\ IF frontierIndex < Len(Slots) - 1
                THEN /\ frontierIndex' = frontierIndex + 1
                     /\ quizSession'[1].currentIndex = frontierIndex + 1
                     /\ ~quizSession'[1].completed
                     /\ UNCHANGED <<session_answers, question_scores, pending>>
                ELSE /\ quizSession'[1].completed
                     /\ pending' = pending + 1
                     /\ Len(session_answers') = Len(session_answers) + Len(Slots)
     /\ CompletingStep
          => /\ lastOp' = "submitAnswer"
             /\ frontierIndex = Len(Slots) - 1
             /\ \A k \in 1..Len(Slots) : quizSession'[1].questions[k].submittedLabel # null]_vars

C12_Witness ==
  /\ lastOp = "submitAnswer"
  /\ HasSession /\ Session.completed
  /\ Len(Slots) = 2 /\ pending = 1 /\ Len(session_answers) = 2
  /\ \A k \in 1..2 : answered[k].first = answered[k].last /\ answered[k].last # null

\* Every slot of the session is as a fresh slot is: no selected and no
\* submitted label, no elapsed time.
AllSlotsFresh(session) ==
  \A k \in 1..Len(session.questions) :
    /\ session.questions[k].submittedLabel = null
    /\ session.questions[k].selectedLabel = null
    /\ session.questions[k].elapsedMs = 0

\* C13: retakeQuiz on an existing session keeps the questions, their order and
\* the config, makes every slot fresh, sets currentIndex and the frontier to
\* 0, completed to false and the view to quiz, mints a session id that no log
\* record carries, and changes neither the scores nor the log.
C13_RetakeResetsAttempt ==
  [][(HasSession /\ retakeQuiz)
     => /\ quizSession' # <<>>
        /\ quizSession'[1].config = Session.config
        /\ Len(quizSession'[1].questions) = Len(Slots)
        /\ \A k \in 1..Len(Slots) : quizSession'[1].questions[k].question = Slots[k].question
        /\ AllSlotsFresh(quizSession'[1])
        /\ quizSession'[1].currentIndex = 0
        /\ ~quizSession'[1].completed
        /\ frontierIndex' = 0
        /\ viewMode' = "quiz"
        /\ sessionId' # sessionId
        /\ \A i \in 1..Len(session_answers') : session_answers'[i].sessionId # sessionId'
        /\ UNCHANGED <<question_scores, session_answers>>]_vars

C13_Witness ==
  /\ lastOp = "retakeQuiz"
  /\ HasSession /\ ~Session.completed
  /\ Len(Slots) = 2 /\ AllSlotsFresh(Session)
  /\ frontierIndex = 0 /\ Session.currentIndex = 0 /\ viewMode = "quiz"
  /\ Len(session_answers) = 2
  /\ \A i \in 1..2 : session_answers[i].sessionId = sessionId - 1

C15_StartQuizFreshSession ==
  [][\A config \in Configs, scores \in {<<>>, getScores(question_scores)} :
       startQuiz(config, Questions, scores)
       => /\ quizSession' # <<>>
          /\ quizSession'[1].config = config
          /\ quizSession'[1].currentIndex = 0
          /\ ~quizSession'[1].completed
          /\ AllSlotsFresh(quizSession'[1])
          /\ frontierIndex' = 0
          /\ viewMode' = "quiz"
          /\ UNCHANGED <<question_scores, session_answers>>]_vars

C15_Witness ==
  /\ lastOp = "startQuiz"
  /\ HasSession /\ ~Session.completed
  /\ Len(Slots) = 2 /\ AllSlotsFresh(Session)
  /\ frontierIndex = 0 /\ Session.currentIndex = 0 /\ viewMode = "quiz"
  /\ Len(session_answers) >= 1
  /\ sessionId = 3

\* C16: submitAnswer, editAnsweredQuestion, showAnsweredQuestions and
\* backToQuiz keep the session, its sequence of questions and every slot's
\* presented answers (labels, order, content); while a session stays in
\* place only startQuiz and retakeQuiz change them.
C16_PresentedAnswersStable ==
  [][/\ (HasSession /\ lastOp' \in {"submitAnswer", "editAnsweredQuestion",
                                    "showAnsweredQuestions", "backToQuiz"})
          => quizSession' # <<>>
     /\ (HasSession /\ quizSession' # <<>> /\ lastOp' \notin {"startQuiz", "retakeQuiz"})
          => /\ Len(quizSession'[1].questions) = Len(Slots)
             /\ \A k \in 1..Len(Slots) :
                  /\ quizSession'[1].questions[k].question = Slots[k].question
                  /\ quizSession'[1].questions[k].presentedAnswers = Slots[k].presentedAnswers]_vars

C16_Witness ==
  /\ lastOp = "submitAnswer"
  /\ HasSession /\ ~Session.completed
  /\ Len(Slots) = 2 /\ frontierIndex = 1 /\ Session.currentIndex = 1
  /\ Slots[1].question.id = "q1"
  /\ Slots[1].presentedAnswers[1].category = "incorrect"
  /\ answered[1].first = "b" /\ answered[1].last = "a"

\* C17: in every operation that keeps the session in place, other than
\* startQuiz and retakeQuiz, the elapsedMs of the slot at currentIndex (as it
\* was before the operation) does not decrease and the elapsedMs of every
\* other slot is unchanged.
C17_ElapsedOnlyOnCurrentSlot ==
  [][(HasSession /\ quizSession' # <<>> /\ lastOp' \notin {"startQuiz", "retakeQuiz"})
     => /\ Len(quizSession'[1].questions) = Len(Slots)
        /\ \A k \in 1..Len(Slots) :
             IF k = Session.currentIndex + 1
             THEN quizSession'[1].questions[k].elapsedMs >= Slots[k].elapsedMs
             ELSE quizSession'[1].questions[k].elapsedMs = Slots[k].elapsedMs]_vars

C17_Witness ==
  /\ lastOp = "editAnsweredQuestion"
  /\ HasSession /\ ~Session.completed
  /\ Len(Slots) = 2 /\ frontierIndex = 1 /\ Session.currentIndex = 0
  /\ Slots[1].elapsedMs = 0 /\ Slots[2].elapsedMs = 1
  /\ questionStartTime = now

\* C18: showAnsweredQuestions and backToQuiz change neither the frontier, a
\* slot's submitted label, the completed flag, the scores nor the log;
\* backToQuiz sets currentIndex to the frontier and the view to quiz,
\* showAnsweredQuestions leaves currentIndex as it is.
C18_ViewTransitionsKeepProgress ==
  [][/\ (showAnsweredQuestions \/ backToQuiz)
          => /\ UNCHANGED <<frontierIndex, question_scores, session_answers>>
             /\ HasSession
                  => /\ quizSession' # <<>>
                     /\ quizSession'[1].completed = Session.completed
                     /\ Len(quizSession'[1].questions) = Len(Slots)
                     /\ \A k \in 1..Len(Slots) :
                          quizSession'[1].questions[k].submittedLabel = Slots[k].submittedLabel
     /\ (HasSession /\ backToQuiz)
          => /\ quizSession'[1].currentIndex = frontierIndex
             /\ viewMode' = "quiz"
     /\ (HasSession /\ showAnsweredQuestions)
          => quizSession'[1].currentIndex = Session.currentIndex]_vars

C18_Witness ==
  /\ lastOp = "backToQuiz"
  /\ HasSession /\ ~Session.completed
  /\ Len(Slots) = 2 /\ frontierIndex = 1 /\ Session.currentIndex = 1
  /\ Submitted(0) /\ ~Submitted(1)
  /\ viewMode = "quiz"

\* The elapsedMs of the current slot after the step is what it was plus the
\* time passed since the elapsed clock was restarted.
CurrentSlotAccrues ==
  quizSession'[1].questions[Session.currentIndex + 1].elapsedMs
    = Slots[Session.currentIndex + 1].elapsedMs + (now - questionStartTime)

\* C19 as claimed: showAnsweredQuestions (past its guard) and backToQuiz each
\* add the time passed since the elapsed clock was restarted to the elapsedMs
\* of the slot at currentIndex.
C19_BothSnapshotElapsed ==
  [][(/\ HasSession /\ InRange(Slots, Session.currentIndex)
      /\ \/ frontierIndex > 0 /\ showAnsweredQuestions
         \/ backToQuiz)
     => CurrentSlotAccrues]_vars

\* C19 as amended: showAnsweredQuestions (past its guard) adds the time passed
\* since the elapsed clock was restarted to the elapsedMs of the slot at
\* currentIndex and restarts the clock; backToQuiz adds no time to any slot
\* and restarts the clock.
C19_ShowSnapshotsBackRestarts ==
  [][/\ (/\ HasSession /\ InRange(Slots, Session.currentIndex)
         /\ frontierIndex > 0 /\ showAnsweredQuestions)
          => /\ CurrentSlotAccrues
             /\ questionStartTime' = now
             /\ viewMode' = "quiz-answered"
     /\ (HasSession /\ backToQuiz)
          => /\ \A k \in 1..Len(Slots) :
                  quizSession'[1].questions[k].elapsedMs = Slots[k].elapsedMs
             /\ questionStartTime' = now]_vars

C19_Witness ==
  /\ lastOp = "showAnsweredQuestions"
  /\ HasSession /\ viewMode = "quiz-answered"
  /\ Len(Slots) = 2 /\ frontierIndex = 1 /\ Session.currentIndex = 1
  /\ Slots[1].elapsedMs = 0 /\ Slots[2].elapsedMs = 1
  /\ now = 1 /\ questionStartTime = 1

\* The questions of a direct call that pass its tag filter.
CallFiltered ==
  { q \in Range(call.questions) :
      call.selectedTags = <<>> \/ \E t \in Range(q.tags) : t \in Range(call.selectedTags) }

\* C20: selectQuestions returns exactly min(count, size of the tag-filtered
\* pool) questions, none of them twice, each one of the filtered pool; an
\* empty filtered pool gives an empty result.
C20_SelectionCardinality ==
  call # <<>> /\ call.returned =>
    /\ Len(call.result) = Min(call.count, Cardinality(CallFiltered))
    /\ \A i, j \in 1..Len(call.result) : i # j => call.result[i].id # call.result[j].id
    /\ \A i \in 1..Len(call.result) : call.result[i] \in CallFiltered
    /\ CallFiltered = {} => call.result = <<>>

C20_Witness ==
  /\ call # <<>> /\ call.returned
  /\ Len(call.questions) = 3 /\ call.count = 3
  /\ call.selectedTags = <<"math">>
  /\ call.scores # <<>>
  /\ Len(call.result) = 2

\* The weighted pool that a returned call of selectQuestions built.
CallPool == WeightedPool(FilterByTags(call.questions, call.selectedTags), call.scores)

\* C21: for every candidate question and every score snapshot, the selection
\* weight maxScore - score(question) + 1 is at least 1.
C21_WeightsAtLeastOne ==
  call # <<>> /\ call.returned =>
    \A i \in 1..Len(CallPool) : CallPool[i].weight >= 1

\* The supplied questions that carry at least one of the selected tags.
CallTagged ==
  { q \in Range(call.questions) : Range(q.tags) \cap Range(call.selectedTags) # {} }

\* C22: with a non-empty selectedTags selectQuestions returns only questions
\* having at least one selected tag (untagged questions are excluded), and
\* exactly those when count covers them; with an empty selectedTags no
\* question is excluded by tags.
C22_TagFilterOrSemantics ==
  call # <<>> /\ call.returned =>
    /\ call.selectedTags # <<>> =>
         /\ \A q \in Range(call.result) : q.tags # <<>> /\ q \in CallTagged
         /\ call.count >= Cardinality(CallTagged) => Range(call.result) = CallTagged
    /\ call.selectedTags = <<>> /\ call.count >= Len(call.questions) =>
         Range(call.result) = Range(call.questions)

\* A call with two selected tags, an untagged question in the pool, and both
\* tagged questions (one of them carrying only one of the tags) returned.
C22_Witness ==
  /\ call # <<>> /\ call.returned
  /\ call.selectedTags = <<"art", "math">>
  /\ \E q \in Range(call.questions) : q.tags = <<>>
  /\ \E q \in Range(call.result) : q.tags = <<"math">>
  /\ \E q \in Range(call.result) : q.tags = <<"art", "math">>

\* The build-time validation rules of a question: at least five answers and
\* at least one answer of each of the four categories.
Validated(question) ==
  /\ Len(question.answers) >= 5
  /\ \A c \in {"correct", "partially_correct", "incorrect", "ridiculous"} :
       \E a \in Range(question.answers) : a.category = c

\* C23: for every validated question and every answerCount in {3,4,5},
\* presentAnswers returns exactly answerCount answers, for every outcome of
\* the random choices.
C23_PresentedLength ==
  call # <<>> /\ call.returned /\ Validated(call.question) =>
    Len(call.result) = call.answerCount

\* An answer of the output without its label.
Unlabelled(p) == [text |-> p.text, category |-> p.category]

\* C24: for every question with at least one correct answer and every
\* answerCount in {3,4,5}, the output of presentAnswers holds exactly one
\* answer of category correct, every output answer is a distinct answer of the
\* question, and the labels of the output positions are a, b, c, ... in
\* sequence starting at a.
C24_PresentationInvariant ==
  call # <<>> /\ call.returned
    /\ (\E a \in Range(call.question.answers) : a.category = "correct") =>
    /\ Cardinality({i \in 1..Len(call.result) : call.result[i].category = "correct"}) = 1
    /\ \A i \in 1..Len(call.result) : Unlabelled(call.result[i]) \in Range(call.question.answers)
    /\ \A i, j \in 1..Len(call.result) :
         i # j => Unlabelled(call.result[i]) # Unlabelled(call.result[j])
    /\ Len(call.result) <= 5
    /\ \A i \in 1..Len(call.result) : call.result[i].label = <<"a", "b", "c", "d", "e">>[i]

\* A question with two correct answers was presented with answerCount 5 and the
\* second of its correct answers came out in the last position.
C24_Witness ==
  /\ call # <<>> /\ call.returned
  /\ call.question.id = "p2" /\ call.answerCount = 5
  /\ call.result[Len(call.result)].text = 2
  /\ call.result[Len(call.result)].label = "d"

\* The session-answer records a step appends to the log.
NewRecords == SubSeq(session_answers', Len(session_answers) + 1, Len(session_answers'))

\* The points of the four answer categories.
Categories == {"correct", "partially_correct", "incorrect", "ridiculous"}
PointsOf(c) ==
  IF c = "correct" THEN 1
  ELSE IF c = "partially_correct" THEN -2
  ELSE IF c = "incorrect" THEN -5 ELSE -10

\* C25: scoreAnswer is a total function on the four answer categories with
\* correct -> +1, partially_correct -> -2, incorrect -> -5, ridiculous -> -10,
\* and every points value finalize writes to the log and adds to the score
\* store is scoreAnswer of the recorded category.
C25_ScoringTable ==
  [][/\ DOMAIN SCORE_MAP = Categories
     /\ \A c \in Categories : scoreAnswer(c) = PointsOf(c)
     /\ Len(session_answers') >= Len(session_answers)
     /\ \A i \in 1..Len(NewRecords) :
          /\ NewRecords[i].category \in Categories
          /\ NewRecords[i].points = PointsOf(NewRecords[i].category)
     /\ \A id \in DOMAIN question_scores :
          question_scores'[id] - question_scores[id] =
            Sum([i \in 1..Len(NewRecords) |->
                   IF NewRecords[i].questionId = id
                   THEN PointsOf(NewRecords[i].category) ELSE 0])]_vars

\* An incorrect answer was finalized: the log holds it with -5 points and the
\* score of its question went down to -5 or below.
C25_Witness ==
  \E i \in 1..Len(session_answers) :
    /\ session_answers[i].category = "incorrect"
    /\ session_answers[i].points = -5
    /\ question_scores[session_answers[i].questionId] <= -5

\* C26: computeMastery returns total = number of ids, positive = number of ids
\* whose snapshot score is > 0, percent = round(100 * positive / total), and
\* all zeros for an empty list; hence 0 <= positive <= total and
\* 0 <= percent <= 100.
C26_MasteryPercent ==
  call # <<>> /\ call.returned =>
    LET ids == call.questionIds
        total == Len(ids)
        positive == Cardinality({i \in 1..total :
                      \E j \in 1..Len(call.scores) :
                        /\ call.scores[j].questionId = ids[i]
                        /\ call.scores[j].cumulativeScore > 0})
    IN /\ call.result.total = total
       /\ call.result.positive = positive
       /\ call.result.percent =
            IF total = 0 THEN 0 ELSE (200 * positive + total) \div (2 * total)
       /\ 0 <= call.result.positive /\ call.result.positive <= call.result.total
       /\ 0 <= call.result.percent /\ call.result.percent <= 100

\* The sum of the first n weights of the call.
PrefixSum(n) == Sum(SubSeq(call.weights, 1, n))

\* C27: for every non-empty array of positive weights and every draw,
\* weightedRandomIndex returns an index i with 0 <= i < length: the first
\* index whose prefix sum reaches the draw, the last index when none does; and
\* every index is returned for some draw of [0, sum of weights].
C27_WeightedIndexInRange ==
  call # <<>> /\ call.returned =>
    /\ call.result >= 0 /\ call.result < Len(call.weights)
    /\ call.r <= PrefixSum(Len(call.weights)) =>
         /\ call.r <= PrefixSum(call.result + 1)
         /\ call.result > 0 => call.r > PrefixSum(call.result)
    /\ call.r > PrefixSum(Len(call.weights)) => call.result = Len(call.weights) - 1
    /\ \A i \in 0..(Len(call.weights) - 1) :
         \E r \in 0..PrefixSum(Len(call.weights)) : weightedRandomIndex(call.weights, r) = i

\* No prefix sum of three weights reached the draw and the last index came back.
C27_Witness ==
  /\ call # <<>> /\ call.returned
  /\ Len(call.weights) = 3
  /\ call.r > PrefixSum(3)
  /\ call.result = 2

\* C28: persistDatabase is attempted exactly once per finalize, and when the
\* write fails the completing submitAnswer ends with the failure: the write is
\* not attempted again, the summary is not shown, nothing is written again.
C28_PersistFailurePropagates ==
  [][/\ (session_answers' # session_answers) <=> (pending' = pending + 1)
     /\ pending' <= pending + 1
     /\ (lastOp' = "persistRejected" /\ now' = now) =>
          /\ pending' = pending - 1
          /\ viewMode' = viewMode
          /\ UNCHANGED <<quizSession, question_scores, session_answers>>]_vars

\* The write of a completed session failed: no write is in flight, the answers
\* are in the log and the quiz view is still shown.
C28_Witness ==
  /\ lastOp = "persistRejected"
  /\ pending = 0
  /\ HasSession /\ Session.completed
  /\ viewMode = "quiz"
  /\ session_answers # <<>>

\* Every node of a navigation tree.
RECURSIVE NodesOf(_)
NodesOf(nodes) ==
  UNION { {nodes[k]} \cup NodesOf(nodes[k].children) : k \in 1..Len(nodes) }

\* The questions of the bank whose id is among the questionIds of a selected node.
InScope(nodeIds) ==
  { q \in Range(Questions) :
      \E node \in NodesOf(allNavNodes) :
        node.id \in Range(nodeIds) /\ q.id \in Range(node.questionIds) }

C30_TimerPausesInAnsweredList ==
  [][(/\ HasSession /\ viewMode = "quiz-answered"
      /\ lastOp = "showAnsweredQuestions"
      /\ lastOp' \in {"editAnsweredQuestion", "backToQuiz"})
     => /\ quizSession' # <<>>
        /\ Len(quizSession'[1].questions) = Len(Slots)
        /\ \A k \in 1..Len(Slots) :
             quizSession'[1].questions[k].elapsedMs = Slots[k].elapsedMs]_vars

\* C31: in the completing submitAnswer the completed flag, the score updates
\* and the log appends take effect in the step that starts the persistence
\* write; the view becomes summary only when that write resolves, with
\* nothing else changed; and only a finalizing submitAnswer starts a write.
C31_SynchronousUntilPersist ==
  [][/\ CompletingStep =>
          /\ Len(session_answers') > Len(session_answers)
          /\ \E id \in DOMAIN question_scores : question_scores'[id] # question_scores[id]
          /\ pending' = pending + 1
          /\ viewMode' = viewMode
     /\ (viewMode' = "summary" /\ viewMode # "summary") =>
          /\ pending > 0 /\ pending' = pending - 1
          /\ UNCHANGED <<quizSession, question_scores, session_answers>>
     /\ pending' > pending =>
          /\ lastOp' = "submitAnswer"
          /\ Len(session_answers') > Len(session_answers)]_vars

\* The completing submitAnswer is suspended on the write: the session is
\* completed and its answers are in the log while the quiz view is still shown.
C31_Witness ==
  /\ pending = 1
  /\ lastOp = "submitAnswer"
  /\ HasSession /\ Session.completed
  /\ viewMode = "quiz"
  /\ Len(session_answers) = Len(Slots)

\* C32: right after the completing submitAnswer every slot of the session
\* has a submittedLabel, and that finalize wrote as many log records as the
\* session has slots.
C32_CompletesFullyAnswered ==
  [][CompletingStep =>
       LET slots == quizSession'[1].questions
       IN /\ \A k \in 1..Len(slots) : slots[k].submittedLabel # null
          /\ Len(session_answers') - Len(session_answers) = Len(slots)
          /\ \A k \in 1..Len(slots) :
               NewRecords[k].questionId = slots[k].question.id]_vars

\* A session of two slots has just completed with two different labels of
\* record, and its two records are the last of the log.
C32_Witness ==
  /\ HasSession /\ Session.completed /\ lastOp = "submitAnswer"
  /\ Len(Slots) = 2
  /\ Slots[1].submittedLabel = "b" /\ Slots[2].submittedLabel = "a"
  /\ Len(session_answers) >= 2
  /\ session_answers[Len(session_answers)].questionId = Slots[2].question.id

\* The questions of the bank that pass the scope and the tag filter of a config.
Eligible(config) ==
  { q \in Range(Questions) :
      /\ config.selectedNodeIds = <<>> \/ q \in InScope(config.selectedNodeIds)
      /\ config.selectedTags = <<>>
           \/ Range(q.tags) \cap Range(config.selectedTags) # {} }

\* C33: startQuiz on an empty scoped and tag-filtered pool creates a session
\* of zero slots that is not completed, and no submitAnswer on a session of
\* zero slots changes the session, completes it, or writes a score or a record.
C33_EmptySessionInert ==
  [][/\ (lastOp' = "startQuiz" /\ sessionId' # sessionId
         /\ Eligible(quizSession'[1].config) = {}) =>
          /\ quizSession'[1].questions = <<>>
          /\ ~quizSession'[1].completed
     /\ (HasSession /\ Slots = <<>> /\ lastOp' = "submitAnswer" /\ now' = now) =>
          UNCHANGED <<quizSession, frontierIndex, viewMode, question_scores,
                      session_answers, pending>>]_vars

\* submitAnswer was called on a session of zero slots started on a scope
\* without questions.
C33_Witness ==
  /\ HasSession /\ Slots = <<>> /\ ~Session.completed
  /\ Session.config.selectedNodeIds = <<"t2">>
  /\ lastOp = "submitAnswer"
  /\ viewMode = "quiz"

C35_ResumeKeepsSummaryConsistent ==
  [][(pending' < pending /\ lastOp' = "persistResolved") =>
       ~(/\ viewMode' = "summary"
         /\ quizSession' = <<>> \/ ~quizSession'[1].completed)]_vars

\* C36: while the session is completed, the submittedLabel of each slot is
\* the answer finalize scored for it: every record of the attempt in the log
\* carries the category of the slot's answer of record.
C36_AnswersOfRecordFrozen ==
  (HasSession /\ Session.completed) =>
    \A k \in 1..Len(Slots) : \A i \in 1..Len(session_answers) :
      (/\ session_answers[i].sessionId = sessionId
       /\ session_answers[i].questionId = Slots[k].question.id) =>
        /\ Slots[k].submittedLabel # null
        /\ session_answers[i].category = AnswerOf(Slots[k], Slots[k].submittedLabel).category

\* The cumulative score the store holds for a question, 0 without a row.
StoredScore(rows, id) == IF id \in DOMAIN rows THEN rows[id] ELSE 0

\* C37: across a finalize the stored cumulative score of every question it
\* recorded changes by the points of the records appended for that question,
\* also for a question without a score row.
C37_ScoreChangeMatchesLog ==
  [][\A id \in {NewRecords[i].questionId : i \in 1..Len(NewRecords)} :
       StoredScore(question_scores', id) - StoredScore(question_scores, id) =
         Sum([i \in 1..Len(NewRecords) |->
                IF NewRecords[i].questionId = id THEN NewRecords[i].points ELSE 0])]_vars

\* The session shows a slot below the frontier.
BelowFrontier == HasSession /\ Session.currentIndex < frontierIndex

AnsweredSlots(session) ==
  {k \in 1..Len(session.questions) : session.questions[k].submittedLabel # null}

\* C39: every submittedLabel of a slot is the label of one of the slot's
\* presentedAnswers, and a finalize writes a record for every answered slot.
C39_SubmittedLabelResolves ==
  [][/\ quizSession' # <<>> =>
          \A k \in AnsweredSlots(quizSession'[1]) :
            \E a \in Range(quizSession'[1].questions[k].presentedAnswers) :
              a.label = quizSession'[1].questions[k].submittedLabel
     /\ (Len(session_answers') > Len(session_answers)) =>
          /\ quizSession' # <<>>
          /\ Len(NewRecords) = Cardinality(AnsweredSlots(quizSession'[1]))]_vars

\* A later attempt, with its answers presented anew, was answered with the
\* second label on its first slot and finalized.
C39_Witness ==
  /\ HasSession /\ Session.completed
  /\ sessionId = 3
  /\ lastOp = "persistResolved"
  /\ Len(Slots) = 2
  /\ Slots[1].submittedLabel = "b"
  /\ Len(session_answers) = 2

====
